---- MODULE Spec2Model ----
(***************************************************************************)
(* Model of src/Jira_connector.py: class Tools, the MCP Jira tool client.  *)
(*                                                                         *)
(* A Python str is a sequence of atoms (an atom is a run of characters    *)
(* that the code never takes apart, or a single separator character), so  *)
(* that concatenation is \o, "" is << >>, and split, strip, startswith    *)
(* and join are computed on the sequence.  A value that may be missing    *)
(* (a dict key, an HTTP header, None) is a sequence of length 0 or 1.     *)
(***************************************************************************)
EXTENDS Integers, Sequences, FiniteSets, TLC

VARIABLES
    valves,       \* self.valves       (Tools.Valves, admin configuration)
    user_valves,  \* self.user_valves  (Tools.UserValves, process-wide defaults)
    frame         \* one activation record per public operation in progress

vars == <<valves, user_valves, frame>>

\* ------------------------------------------------------------ bounds
NumOps == 2          \* operations the host may run concurrently
MaxContent == 3      \* items in result.content of a tools/call response
MaxTools == 2        \* tools in result.tools of a tools/list response
MaxEnabled == 2      \* comma-separated entries in the ENABLED_TOOLS setting
MaxTimeout == 401    \* largest REQUEST_TIMEOUT drawn in SpecTimeout
MaxJsonLen == 3      \* tokens in the arguments string of call_mcp_tool

Procs == 1 .. NumOps

\* ------------------------------------------------------------ values
\* A member of a dict (of a JSON object) is None when the key is missing,
\* Some(v) when its value is v, and Null when its value is the Python None
\* (JSON null).  A Python value that may be None is Some(v) or Null, and a
\* local that is not set yet is None.
None == << >>
Some(v) == <<v>>
Null == <<"null", "null">>
IsSome(o) == Len(o) = 1
IsNull(o) == Len(o) = 2
\* key in dict
Has(o) == Len(o) > 0
\* dict.get(key, default): Some(value) or Null, Some(default) for a missing key
Get(o, default) == IF Len(o) = 0 THEN Some(default) ELSE o
\* str(None)
NoneStr == <<"None">>

\* bool(s) of a Python str
Truthy(s) == Len(s) > 0

RECURSIVE Digits(_)
Digits(n) ==
    IF n < 10
    THEN << <<"0", "1", "2", "3", "4", "5", "6", "7", "8", "9">>[n + 1] >>
    ELSE Digits(n \div 10)
         \o << <<"0", "1", "2", "3", "4", "5", "6", "7", "8", "9">>[(n % 10) + 1] >>

\* str(n) of a Python int
IntToStr(n) == IF n < 0 THEN <<"-">> \o Digits(0 - n) ELSE Digits(n)

\* ------------------------------------------------------------ configuration
\* Tools.UserValves field defaults
DefaultRequestTimeout == 120

DefaultUserValves ==
    [LITELLM_API_KEY |-> << >>, JIRA_PAT |-> << >>,
     REQUEST_TIMEOUT |-> DefaultRequestTimeout]

\* Tools.Valves as constructed
DefaultValves == [ENABLED_TOOLS |-> << >>, READ_ONLY_MODE |-> TRUE]

\* ------------------------------------------------------------ tool names
J(suffix) == <<"jira_", suffix>>

discover_jira_tools == <<"discover_jira_tools">>
call_mcp_tool == <<"call_mcp_tool">>

ReadOps ==
    {J("search"), J("get_issue"), J("get_all_projects"), J("get_project_issues"),
     J("get_transitions"), J("get_agile_boards"), J("get_sprints_from_board"),
     J("get_sprint_issues"), J("get_worklog"), J("get_user_profile"),
     J("search_fields"), J("get_project_versions"), J("get_board_issues"),
     J("get_link_types")}

WriteOps ==
    {J("create_issue"), J("update_issue"), J("transition_issue"),
     J("add_comment"), J("add_worklog"), J("link_to_epic"),
     J("create_issue_link"), J("delete_issue")}

PublicOps == {discover_jira_tools, call_mcp_tool} \cup ReadOps \cup WriteOps

write_tools ==
    {J("create_issue"), J("update_issue"), J("delete_issue"),
     J("batch_create_issues"), J("add_comment"), J("transition_issue"),
     J("add_worklog"), J("link_to_epic"), J("create_sprint"),
     J("update_sprint"), J("create_issue_link"), J("remove_issue_link"),
     J("create_version"), J("batch_create_versions"),
     J("create_remote_issue_link")}

\* the classification when only the tools with an operation of their own
\* were listed
is_write_tool_own_operation(tool_name) == tool_name \in WriteOps

_is_write_tool(tool_name) == tool_name \in write_tools

\* ------------------------------------------------------------ results
\* A public operation ends by returning a str or by raising.  A str built
\* by json.dumps is kept as the object it encodes, under a kind of its own
\* for each shape of object:
\*   "text"               a plain str
\*   "json_error"         json.dumps({"error": <str>}), with "message" or not
\*   "json_error_object"  json.dumps({"error": <the error member of a body>})
\*   "json_error_null"    json.dumps({"error": None})
\*   "json_tools"         json.dumps(jira_tools, ...)
\*   "json_body"          json.dumps(data)
\*   "raise"              an exception that leaves the operation
Text(s) == [kind |-> "text", value |-> s]
JsonError(error, message) ==
    [kind |-> "json_error", value |-> [error |-> error, message |-> message]]
JsonErrorObject(err) == [kind |-> "json_error_object", value |-> err]
JsonErrorNull == [kind |-> "json_error_null", value |-> Null]
JsonTools(list) == [kind |-> "json_tools", value |-> list]
JsonBody(data) == [kind |-> "json_body", value |-> data]
Raised(exc) == [kind |-> "raise", value |-> exc]

\* f"... I cannot {operation} because ..."
_read_only_message(operation) ==
    Text(<<"Read-Only Mode Active: I cannot ">> \o operation
         \o <<" because the Jira integration is currently in read-only mode">>)

NotConfigured ==
    JsonError(<<"Jira PAT not configured">>,
              Some(<<"Please configure your Jira Personal Access Token in User Settings">>))

ErrorPayload(msg) == JsonError(msg, None)

\* json.dumps({"error": err_msg}) for an err_msg that may be None
ErrorPayloadOf(err_msg) ==
    IF IsNull(err_msg) THEN JsonErrorNull ELSE ErrorPayload(err_msg[1])

\* ------------------------------------------------------------ exceptions
\* An exception is its class and its str(e).
Exc(type, msg) == [type |-> type, msg |-> msg]

\* ------------------------------------------------------------ _get_user_valves
\* The caller context __user__ is [shape, valves]:
\*   "absent"        None
\*   "empty"         a falsy value ({}, "", 0)
\*   "no_valves"     a non-empty dict without "valves" (or with valves None)
\*   "typed"         {"valves": <UserValves instance>}
\*   "dict"          {"valves": <dict>}; the dict gives each field or not, and
\*                   bad_type says that some field has a type pydantic rejects
\*   "other_valves"  {"valves": <neither UserValves nor dict>}
\*   "not_mapping"   a truthy value without .get (a str, a list)
Resolved(uv) == [raised |-> FALSE, value |-> uv, exc |-> Exc("", << >>)]
Raises(exc) == [raised |-> TRUE, value |-> DefaultUserValves, exc |-> exc]

\* UserValves(**valves): a field the dict leaves out takes the class
\* default; pydantic rejects None, as any value of the wrong type, for the
\* str and int fields
UserValvesFromDict(d) ==
    IF d.bad_type \/ IsNull(d.LITELLM_API_KEY) \/ IsNull(d.JIRA_PAT) \/ IsNull(d.REQUEST_TIMEOUT)
    THEN Raises(Exc("ValidationError", <<"validation error for UserValves">>))
    ELSE Resolved([LITELLM_API_KEY |-> Get(d.LITELLM_API_KEY, DefaultUserValves.LITELLM_API_KEY)[1],
                   JIRA_PAT        |-> Get(d.JIRA_PAT, DefaultUserValves.JIRA_PAT)[1],
                   REQUEST_TIMEOUT |-> Get(d.REQUEST_TIMEOUT, DefaultUserValves.REQUEST_TIMEOUT)[1]])

_get_user_valves(self_user_valves, user) ==
    CASE user.shape \in {"absent", "empty"} -> Resolved(self_user_valves)
      [] user.shape = "not_mapping" ->
            Raises(Exc("AttributeError", <<"object has no attribute 'get'">>))
      [] user.shape = "no_valves" -> Resolved(self_user_valves)
      [] user.shape = "typed" -> Resolved(user.valves)
      [] user.shape = "dict" -> UserValvesFromDict(user.valves)
      [] OTHER -> Resolved(self_user_valves)

\* ------------------------------------------------------------ _get_headers
\* Only the headers that depend on the caller or on the session are kept.
_get_headers(uv, session_id) ==
    [x_litellm_api_key |->
        IF Truthy(uv.LITELLM_API_KEY) THEN Some(<<"Bearer ">> \o uv.LITELLM_API_KEY) ELSE None,
     x_mcp_jira_authorization |->
        IF Truthy(uv.JIRA_PAT) THEN Some(<<"Token ">> \o uv.JIRA_PAT) ELSE None,
     Mcp_Session_Id |->
        IF IsSome(session_id) /\ Truthy(session_id[1]) THEN session_id ELSE None]

\* ------------------------------------------------------------ json.loads
\* The arguments string of call_mcp_tool is a sequence of JSON tokens.  The
\* grammar kept is: value ::= null | {} | [] | [ value (, value)* ].
JsonTokens == {"{", "}", "[", "]", ",", "null"}

RECURSIVE IsJsonValue(_)
RECURSIVE IsJsonElements(_)
IsJsonValue(s) ==
    \/ s = <<"null">>
    \/ s = <<"{", "}">>
    \/ /\ Len(s) >= 2
       /\ s[1] = "["
       /\ s[Len(s)] = "]"
       /\ (Len(s) = 2 \/ IsJsonElements(SubSeq(s, 2, Len(s) - 1)))

IsJsonElements(m) ==
    \/ IsJsonValue(m)
    \/ \E i \in 2 .. (Len(m) - 1) :
          /\ m[i] = ","
          /\ IsJsonValue(SubSeq(m, 1, i - 1))
          /\ IsJsonElements(SubSeq(m, i + 1, Len(m)))

\* json.loads(arguments) if isinstance(arguments, str) else arguments
JsonLoads(arguments) ==
    IF ~arguments.is_str
    THEN [ok |-> TRUE, value |-> arguments, exc |-> Exc("", << >>)]
    ELSE IF IsJsonValue(arguments.text)
    THEN [ok |-> TRUE, value |-> [is_str |-> FALSE, text |-> arguments.text],
          exc |-> Exc("", << >>)]
    ELSE [ok |-> FALSE, value |-> arguments,
          exc |-> Exc("JSONDecodeError", <<"Expecting value">>)]

\* ------------------------------------------------------------ HTTP
\* What requests.post does: it raises Timeout, it raises another
\* RequestException, or it returns a response [status, session, text, json]:
\* session is the Mcp-Session-Id response header, text is response.text and
\* json is what response.json() gives: None when the body is not JSON
\* (json() raises), Null when the body is the JSON null, Some(body) for a
\* JSON object.
TimedOut == [kind |-> "timeout"]
ConnectionFailed == [kind |-> "connection_error"]
Response(status, session, text, json) ==
    [kind |-> "response", status |-> status, session |-> session,
     text |-> text, json |-> json]

TimeoutExc == Exc("Timeout", <<"Read timed out.">>)
ConnectionExc == Exc("ConnectionError", <<"Connection refused">>)
JsonBodyExc == Exc("JSONDecodeError", <<"Expecting value: line 1 column 1 (char 0)">>)
\* "error" in data, data being None
NotIterableArgExc == Exc("TypeError", <<"argument of type 'NoneType' is not iterable">>)
\* None.get(...)
NoGetExc == Exc("AttributeError", <<"'NoneType' object has no attribute 'get'">>)
\* for item in None
NotIterableExc == Exc("TypeError", <<"'NoneType' object is not iterable">>)
\* None.startswith(...)
NoStartswithExc == Exc("AttributeError", <<"'NoneType' object has no attribute 'startswith'">>)
\* "\n".join(text_results) with None at index i of text_results
JoinExc(i) ==
    Exc("TypeError", <<"sequence item ">> \o IntToStr(i)
                     \o <<": expected str instance, NoneType found">>)

\* str(data["error"]) of an error member that is there
ErrorStr(error) == IF IsNull(error) THEN NoneStr ELSE error[1].str

\* the value of a JSON-RPC "error" member: a string, or an object that may
\* carry "message"; str is its Python string form
ErrorString(s) == [is_dict |-> FALSE, message |-> None, str |-> s]
ErrorObject(message, repr) == [is_dict |-> TRUE, message |-> message, str |-> repr]

\* ------------------------------------------------------------ _handshake
HandshakeFloor == 30
HandshakeDivisor == 4
NotifyTimeout == 10
DiscoveryTimeout == 60
StatusOK == 200

Max(a, b) == IF a >= b THEN a ELSE b

\* the timeout of the initialize POST with the floor left out
handshake_timeout_no_floor(uv) == uv.REQUEST_TIMEOUT \div HandshakeDivisor

\* handshake_timeout = max(30, user_valves.REQUEST_TIMEOUT // 4)
handshake_timeout(uv) ==
    Max(HandshakeFloor, uv.REQUEST_TIMEOUT \div HandshakeDivisor)

InitializeRequest(uv) ==
    [method |-> "initialize", headers |-> _get_headers(uv, None),
     timeout |-> handshake_timeout(uv), params |-> <<"initialize">>]

\* the session a later request of the operation carries, when the session
\* were kept in one place for all operations instead of in a local
SessionShared(f, all) ==
    IF \E q \in DOMAIN all : all[q] # f /\ IsSome(all[q].session_id)
    THEN all[CHOOSE q \in DOMAIN all : all[q] # f /\ IsSome(all[q].session_id)].session_id
    ELSE f.session_id

\* the local session_id of the operation whose activation record is f
SessionOf(f, all) == f.session_id

NotifyRequest(uv, session_id) ==
    [method |-> "notifications/initialized",
     headers |-> _get_headers(uv, session_id),
     timeout |-> NotifyTimeout, params |-> << >>]

\* The outcome of the initialize POST inside _handshake: the exception
\* _handshake raises, or the session_id it goes on with.
Proceed(session_id) == [raised |-> FALSE, session_id |-> session_id, exc |-> Exc("", << >>)]
Fails(exc) == [raised |-> TRUE, session_id |-> None, exc |-> exc]

\* the initialize POST with the status test left out
HandshakeInitializeNoStatus(o) ==
    CASE o.kind = "timeout" -> Fails(TimeoutExc)
      [] o.kind = "connection_error" -> Fails(ConnectionExc)
      [] OTHER ->
            IF o.json = None
            THEN Fails(JsonBodyExc)
            ELSE IF IsNull(o.json)
            THEN Fails(NotIterableArgExc)
            ELSE IF Has(o.json[1].error)
            THEN Fails(Exc("Exception", <<"MCP Error: ">> \o ErrorStr(o.json[1].error)))
            ELSE Proceed(o.session)

HandshakeInitialize(o) ==
    CASE o.kind = "timeout" -> Fails(TimeoutExc)
      [] o.kind = "connection_error" -> Fails(ConnectionExc)
      [] OTHER ->
            IF o.status # StatusOK
            THEN Fails(Exc("Exception",
                           <<"HTTP ">> \o IntToStr(o.status) \o <<": ">> \o o.text))
            ELSE IF o.json = None
            THEN Fails(JsonBodyExc)
            ELSE IF IsNull(o.json)
            THEN Fails(NotIterableArgExc)
            ELSE IF Has(o.json[1].error)
            THEN Fails(Exc("Exception", <<"MCP Error: ">> \o ErrorStr(o.json[1].error)))
            ELSE Proceed(o.session)

\* The outcome of the notification POST: its response is not looked at, but
\* an exception of requests.post leaves _handshake.
HandshakeNotify(o, session_id) ==
    CASE o.kind = "timeout" -> Fails(TimeoutExc)
      [] o.kind = "connection_error" -> Fails(ConnectionExc)
      [] OTHER -> Proceed(session_id)

\* ------------------------------------------------------------ _call_tool
CallRequest(uv, session_id, tool_name, arguments) ==
    [method |-> "tools/call", headers |-> _get_headers(uv, session_id),
     timeout |-> uv.REQUEST_TIMEOUT,
     params |-> [name |-> tool_name, arguments |-> arguments]]

TimeoutPayload(uv) ==
    ErrorPayload(<<"Request timeout after ">> \o IntToStr(uv.REQUEST_TIMEOUT)
                 \o <<"s - try increasing REQUEST_TIMEOUT in user settings">>)

\* the except clauses of _call_tool
CallToolExcept(exc, uv) ==
    IF exc.type = "Timeout" THEN TimeoutPayload(uv) ELSE ErrorPayload(exc.msg)

\* err.get("message", str(err)) if isinstance(err, dict) else str(err), for
\* the value err of an "error" member: Some(str) or Null
ErrMsg(err) ==
    IF IsNull(err) THEN Some(NoneStr)
    ELSE IF err[1].is_dict THEN Get(err[1].message, err[1].str)
    ELSE Some(err[1].str)

\* One item of result.content: what it appends to text_results (a str or
\* None, or nothing), or the exception it raises.  An item whose "type" is
\* missing, null or any other value appends nothing.
ItemText(item) ==
    CASE item.type = "text" -> [exc |-> None, add |-> <<Get(item.text, << >>)>>]
      [] item.type = "resource" ->
            LET resource == Get(item.resource, [uri |-> None])
            IN  IF IsNull(resource)
                THEN [exc |-> Some(NoGetExc), add |-> << >>]
                ELSE LET uri == Get(resource[1].uri, <<"unknown">>)
                     IN  [exc |-> None,
                          add |-> <<Some(<<"[Resource: ">>
                                         \o (IF IsNull(uri) THEN NoneStr ELSE uri[1])
                                         \o <<"]">>)>>]
      [] OTHER -> [exc |-> None, add |-> << >>]

RECURSIVE TextResults(_)
\* the for loop over content: text_results, or the exception of the first
\* item that raises
TextResults(content) ==
    IF content = << >> THEN [exc |-> None, list |-> << >>]
    ELSE LET h == ItemText(Head(content))
         IN  IF IsSome(h.exc) THEN [exc |-> h.exc, list |-> << >>]
             ELSE LET t == TextResults(Tail(content))
                  IN  [exc |-> t.exc, list |-> h.add \o t.list]

RECURSIVE JoinLines(_)
\* "\n".join(text_results) of a list of str
JoinLines(parts) ==
    IF parts = << >> THEN << >>
    ELSE IF Len(parts) = 1 THEN parts[1]
    ELSE parts[1] \o <<"\n">> \o JoinLines(Tail(parts))

\* "\n".join(text_results): the str, or the TypeError for the first None
Join(text_results) ==
    IF \E i \in 1 .. Len(text_results) : IsNull(text_results[i])
    THEN [exc |-> Some(JoinExc((CHOOSE i \in 1 .. Len(text_results) :
                                   /\ IsNull(text_results[i])
                                   /\ \A j \in 1 .. (i - 1) : ~IsNull(text_results[j])) - 1)),
          str |-> << >>]
    ELSE [exc |-> None,
          str |-> JoinLines([i \in 1 .. Len(text_results) |-> text_results[i][1]])]

\* returns the joined text when the joined text, not the list, is non-empty
NormalizeByJoined(data) ==
    LET result == Get(data.result, [content |-> None])
    IN  IF IsNull(result) THEN ErrorPayload(NoGetExc.msg)
        ELSE LET content == Get(result[1].content, << >>)
             IN  IF IsNull(content) THEN ErrorPayload(NotIterableExc.msg)
                 ELSE LET r == TextResults(content[1])
                          joined == Join(r.list)
                      IN  IF IsSome(r.exc) THEN ErrorPayload(r.exc[1].msg)
                          ELSE IF IsSome(joined.exc) THEN ErrorPayload(joined.exc[1].msg)
                          ELSE IF joined.str # << >> THEN Text(joined.str)
                          ELSE JsonBody(data)

\* content = data.get("result", {}).get("content", []) ... return; an
\* exception on the way is caught by "except Exception" of _call_tool
Normalize(data) ==
    LET result == Get(data.result, [content |-> None])
    IN  IF IsNull(result) THEN ErrorPayload(NoGetExc.msg)
        ELSE LET content == Get(result[1].content, << >>)
             IN  IF IsNull(content) THEN ErrorPayload(NotIterableExc.msg)
                 ELSE LET r == TextResults(content[1])
                          joined == Join(r.list)
                      IN  IF IsSome(r.exc) THEN ErrorPayload(r.exc[1].msg)
                          ELSE IF r.list = << >> THEN JsonBody(data)
                          ELSE IF IsSome(joined.exc) THEN ErrorPayload(joined.exc[1].msg)
                          ELSE Text(joined.str)

\* the response of the tools/call POST with the status test left out
CallToolResponseNoStatus(o, uv) ==
    CASE o.kind = "timeout" -> TimeoutPayload(uv)
      [] o.kind = "connection_error" -> ErrorPayload(ConnectionExc.msg)
      [] OTHER ->
            IF o.json = None THEN ErrorPayload(JsonBodyExc.msg)
            ELSE IF IsNull(o.json) THEN ErrorPayload(NotIterableArgExc.msg)
            ELSE IF Has(o.json[1].error) THEN ErrorPayloadOf(ErrMsg(o.json[1].error))
            ELSE Normalize(o.json[1])

\* the response of the tools/call POST with the error member looked at last
CallToolResponseResultFirst(o, uv) ==
    CASE o.kind = "timeout" -> TimeoutPayload(uv)
      [] o.kind = "connection_error" -> ErrorPayload(ConnectionExc.msg)
      [] OTHER ->
            IF o.status # StatusOK
            THEN ErrorPayload(<<"HTTP ">> \o IntToStr(o.status) \o <<": ">> \o o.text)
            ELSE IF o.json = None THEN ErrorPayload(JsonBodyExc.msg)
            ELSE IF IsNull(o.json) THEN ErrorPayload(NotIterableArgExc.msg)
            ELSE IF Has(o.json[1].result) THEN Normalize(o.json[1])
            ELSE IF Has(o.json[1].error) THEN ErrorPayloadOf(ErrMsg(o.json[1].error))
            ELSE Normalize(o.json[1])

\* what _call_tool returns for the outcome o of the tools/call POST
CallToolResponse(o, uv) ==
    CASE o.kind = "timeout" -> TimeoutPayload(uv)
      [] o.kind = "connection_error" -> ErrorPayload(ConnectionExc.msg)
      [] OTHER ->
            IF o.status # StatusOK
            THEN ErrorPayload(<<"HTTP ">> \o IntToStr(o.status) \o <<": ">> \o o.text)
            ELSE IF o.json = None THEN ErrorPayload(JsonBodyExc.msg)
            ELSE IF IsNull(o.json) THEN ErrorPayload(NotIterableArgExc.msg)
            ELSE IF Has(o.json[1].error) THEN ErrorPayloadOf(ErrMsg(o.json[1].error))
            ELSE Normalize(o.json[1])

\* ------------------------------------------------------------ discover_jira_tools
ListRequest(uv, session_id) ==
    [method |-> "tools/list", headers |-> _get_headers(uv, session_id),
     timeout |-> DiscoveryTimeout, params |-> << >>]

\* index of the first "," of s, 0 when there is none
FirstComma(s) ==
    IF \E i \in 1 .. Len(s) : s[i] = ","
    THEN CHOOSE i \in 1 .. Len(s) : s[i] = "," /\ \A j \in 1 .. (i - 1) : s[j] # ","
    ELSE 0

RECURSIVE Split(_)
\* s.split(",")
Split(s) ==
    IF FirstComma(s) = 0 THEN <<s>>
    ELSE <<SubSeq(s, 1, FirstComma(s) - 1)>> \o Split(SubSeq(s, FirstComma(s) + 1, Len(s)))

RECURSIVE LStrip(_)
LStrip(s) == IF s # << >> /\ Head(s) = " " THEN LStrip(Tail(s)) ELSE s

RECURSIVE RStrip(_)
RStrip(s) ==
    IF s # << >> /\ s[Len(s)] = " " THEN RStrip(SubSeq(s, 1, Len(s) - 1)) ELSE s

\* t.strip()
Strip(s) == RStrip(LStrip(s))

RECURSIVE StripNonBlank(_)
\* [t.strip() for t in parts if t.strip()]
StripNonBlank(parts) ==
    IF parts = << >> THEN << >>
    ELSE (IF Truthy(Strip(Head(parts))) THEN <<Strip(Head(parts))>> ELSE << >>)
         \o StripNonBlank(Tail(parts))

\* enabled_list
EnabledList(enabled_tools) == StripNonBlank(Split(enabled_tools))

InList(x, list) == \E i \in 1 .. Len(list) : list[i] = x

\* name.startswith("jira_")
StartsWithJira(name) == Len(name) >= 1 /\ name[1] = "jira_"

\* the three tests of the loop with the read-only test left out
KeepsToolNoReadOnly(v, name) ==
    /\ StartsWithJira(name)
    /\ (EnabledList(v.ENABLED_TOOLS) = << >> \/ InList(name, EnabledList(v.ENABLED_TOOLS)))

\* the three tests of the loop over the tools of the server
KeepsTool(v, name) ==
    /\ StartsWithJira(name)
    /\ (EnabledList(v.ENABLED_TOOLS) = << >> \/ InList(name, EnabledList(v.ENABLED_TOOLS)))
    /\ ~(v.READ_ONLY_MODE /\ _is_write_tool(name))

\* the entry appended to jira_tools for a tool whose name is a str;
\* description and input_schema are Some(value) or Null
ToolEntry(tool) ==
    [name |-> Get(tool.name, << >>)[1],
     description |-> Get(tool.description, << >>),
     input_schema |-> Get(tool.inputSchema, << >>)]

RECURSIVE FilterTools(_, _)
\* the loop over tools: jira_tools, or the AttributeError of
\* name.startswith for the first tool whose name is None
FilterTools(v, tools) ==
    IF tools = << >> THEN [exc |-> None, list |-> << >>]
    ELSE LET name == Get(Head(tools).name, << >>)
         IN  IF IsNull(name) THEN [exc |-> Some(NoStartswithExc), list |-> << >>]
             ELSE LET t == FilterTools(v, Tail(tools))
                  IN  [exc |-> t.exc,
                       list |-> (IF KeepsTool(v, name[1])
                                 THEN <<ToolEntry(Head(tools))>> ELSE << >>) \o t.list]

\* the except clause of discover_jira_tools
DiscoverExcept(exc) == ErrorPayload(<<"Discovery failed: ">> \o exc.msg)

\* result.get("result", {}).get("tools", []) and the loop over it
DiscoverTools(data, v) ==
    LET result == Get(data.result, [tools |-> None])
    IN  IF IsNull(result) THEN DiscoverExcept(NoGetExc)
        ELSE LET tools == Get(result[1].tools, << >>)
             IN  IF IsNull(tools) THEN DiscoverExcept(NotIterableExc)
                 ELSE LET r == FilterTools(v, tools[1])
                      IN  IF IsSome(r.exc) THEN DiscoverExcept(r.exc[1])
                          ELSE JsonTools(r.list)

\* what discover_jira_tools returns for the outcome o of the tools/list POST
DiscoverResponse(o, v) ==
    CASE o.kind = "timeout" -> DiscoverExcept(TimeoutExc)
      [] o.kind = "connection_error" -> DiscoverExcept(ConnectionExc)
      [] OTHER ->
            IF o.status # StatusOK
            THEN ErrorPayload(<<"HTTP ">> \o IntToStr(o.status) \o <<": ">> \o o.text)
            ELSE IF o.json = None THEN DiscoverExcept(JsonBodyExc)
            ELSE IF IsNull(o.json) THEN DiscoverExcept(NotIterableArgExc)
            ELSE IF IsNull(o.json[1].error) THEN JsonErrorNull
            ELSE IF Has(o.json[1].error) THEN JsonErrorObject(o.json[1].error[1])
            ELSE DiscoverTools(o.json[1], v)

\* ------------------------------------------------------------ public operations
\* The named parameters of an operation: key is its first parameter
\* (issue_key, inward_issue_key, jql, board_id ...), key2 is epic_key or
\* outward_issue_key.
NoParams == [key |-> << >>, key2 |-> << >>]
NoArguments == [is_str |-> FALSE, text |-> << >>]

\* the argument of _read_only_message in each write operation
ReadOnlyAction(op, params) ==
    CASE op = J("create_issue") -> <<"create a new Jira issue">>
      [] op = J("update_issue") -> <<"update issue ">> \o params.key
      [] op = J("transition_issue") -> <<"transition issue ">> \o params.key
      [] op = J("add_comment") -> <<"add a comment to issue ">> \o params.key
      [] op = J("add_worklog") -> <<"add a worklog to issue ">> \o params.key
      [] op = J("link_to_epic") ->
            <<"link issue ">> \o params.key \o <<" to epic ">> \o params.key2
      [] op = J("create_issue_link") ->
            <<"create a link between ">> \o params.key \o <<" and ">> \o params.key2
      [] op = J("delete_issue") -> <<"delete issue ">> \o params.key
      [] OTHER -> << >>

\* the arguments dict a wrapper builds from its named parameters
WrapperArguments(op, params) == [is_str |-> FALSE, text |-> op \o params.key \o params.key2]

\* How the part of an operation before its first request ends: it returns
\* (or raises) result, or it goes on to the handshake.
Ends(result, creds) ==
    [pc |-> "done", result |-> Some(result), creds |-> creds,
     tool_name |-> << >>, arguments |-> NoArguments]
GoesOn(creds, tool_name, arguments) ==
    [pc |-> "initialize", result |-> None, creds |-> Some(creds),
     tool_name |-> tool_name, arguments |-> arguments]

\* _call_tool without the test of JIRA_PAT
call_tool_begin_no_pat_test(tool_name, arguments, uv) ==
    GoesOn(uv, tool_name, arguments)

\* _call_tool up to the try
call_tool_begin(tool_name, arguments, uv) ==
    IF ~Truthy(uv.JIRA_PAT)
    THEN Ends(NotConfigured, Some(uv))
    ELSE GoesOn(uv, tool_name, arguments)

\* discover_jira_tools up to the try
discover_begin(self_user_valves, input) ==
    LET r == _get_user_valves(self_user_valves, input.user)
    IN  IF r.raised THEN Ends(Raised(r.exc), None)
        ELSE IF ~Truthy(r.value.JIRA_PAT) THEN Ends(NotConfigured, Some(r.value))
        ELSE GoesOn(r.value, << >>, NoArguments)

\* a read operation (jira_search ... jira_get_link_types)
read_op_begin(self_user_valves, op, input) ==
    LET r == _get_user_valves(self_user_valves, input.user)
    IN  IF r.raised THEN Ends(Raised(r.exc), None)
        ELSE call_tool_begin(op, WrapperArguments(op, input.params), r.value)

\* a write operation (jira_create_issue ... jira_delete_issue)
write_op_begin(v, self_user_valves, op, input) ==
    IF v.READ_ONLY_MODE
    THEN Ends(_read_only_message(ReadOnlyAction(op, input.params)), None)
    ELSE read_op_begin(self_user_valves, op, input)

\* call_mcp_tool when json.loads raised something the except clause does
\* not name: the arguments string goes on to _call_tool as it is
call_mcp_tool_begin_unparsed(v, self_user_valves, input) ==
    IF v.READ_ONLY_MODE /\ _is_write_tool(input.tool_name)
    THEN Ends(_read_only_message(<<"execute '">> \o input.tool_name \o <<"'">>), None)
    ELSE LET r == _get_user_valves(self_user_valves, input.user)
         IN  IF r.raised THEN Ends(Raised(r.exc), None)
             ELSE call_tool_begin(input.tool_name, input.arguments, r.value)

\* call_mcp_tool refusing a tool name that a non-empty enabled_list leaves out
call_mcp_tool_begin_enabled_only(v, self_user_valves, input) ==
    IF v.READ_ONLY_MODE /\ _is_write_tool(input.tool_name)
    THEN Ends(_read_only_message(<<"execute '">> \o input.tool_name \o <<"'">>), None)
    ELSE IF /\ EnabledList(v.ENABLED_TOOLS) # << >>
            /\ ~InList(input.tool_name, EnabledList(v.ENABLED_TOOLS))
    THEN Ends(ErrorPayload(<<"Tool not enabled: ">> \o input.tool_name), None)
    ELSE LET r == _get_user_valves(self_user_valves, input.user)
             a == JsonLoads(input.arguments)
         IN  IF r.raised THEN Ends(Raised(r.exc), None)
             ELSE IF ~a.ok
             THEN Ends(ErrorPayload(<<"Invalid JSON arguments: ">> \o a.exc.msg),
                       Some(r.value))
             ELSE call_tool_begin(input.tool_name, a.value, r.value)

\* call_mcp_tool up to the call of _call_tool
call_mcp_tool_begin(v, self_user_valves, input) ==
    IF v.READ_ONLY_MODE /\ _is_write_tool(input.tool_name)
    THEN Ends(_read_only_message(<<"execute '">> \o input.tool_name \o <<"'">>), None)
    ELSE LET r == _get_user_valves(self_user_valves, input.user)
             a == JsonLoads(input.arguments)
         IN  IF r.raised THEN Ends(Raised(r.exc), None)
             ELSE IF ~a.ok
             THEN Ends(ErrorPayload(<<"Invalid JSON arguments: ">> \o a.exc.msg),
                       Some(r.value))
             ELSE call_tool_begin(input.tool_name, a.value, r.value)

Begin(v, self_user_valves, op, input) ==
    CASE op = discover_jira_tools -> discover_begin(self_user_valves, input)
      [] op = call_mcp_tool -> call_mcp_tool_begin(v, self_user_valves, input)
      [] op \in WriteOps -> write_op_begin(v, self_user_valves, op, input)
      [] OTHER -> read_op_begin(self_user_valves, op, input)

\* ------------------------------------------------------------ state
IdleFrame ==
    [pc |-> "idle", op |-> << >>,
     input |-> [params |-> NoParams, tool_name |-> << >>,
                arguments |-> NoArguments,
                user |-> [shape |-> "absent", valves |-> DefaultUserValves]],
     creds |-> None, tool_name |-> << >>, arguments |-> NoArguments,
     init_response |-> None, session_id |-> None, notify_response |-> None,
     response |-> None, sent |-> << >>, result |-> None]

\* the inputs the host may give to op, drawn from the domain D
InputsFor(op, D) ==
    IF op = call_mcp_tool
    THEN {[params |-> NoParams, tool_name |-> t, arguments |-> a, user |-> u] :
             t \in D.tool_names, a \in D.arguments, u \in D.users}
    ELSE IF op = discover_jira_tools \/ op \in {J("create_issue"), J("get_all_projects"), J("get_link_types")}
    THEN {[params |-> NoParams, tool_name |-> << >>, arguments |-> NoArguments, user |-> u] :
             u \in D.users}
    ELSE IF op \in {J("link_to_epic"), J("create_issue_link")}
    THEN {[params |-> [key |-> k, key2 |-> k2], tool_name |-> << >>,
           arguments |-> NoArguments, user |-> u] :
             k \in D.keys, k2 \in D.keys, u \in D.users}
    ELSE {[params |-> [key |-> k, key2 |-> << >>], tool_name |-> << >>,
           arguments |-> NoArguments, user |-> u] :
             k \in D.keys, u \in D.users}

\* The host invokes a public operation: the operation runs up to its first
\* request, or to its return when it sends none.
Invoke(p, D) ==
    /\ frame[p].pc = "idle"
    /\ \E op \in D.ops :
         \E input \in InputsFor(op, D) :
            LET b == Begin(valves, user_valves, op, input)
            IN  frame' = [frame EXCEPT ![p] =
                    [IdleFrame EXCEPT !.pc = b.pc, !.op = op, !.input = input,
                                      !.creds = b.creds, !.tool_name = b.tool_name,
                                      !.arguments = b.arguments, !.result = b.result]]
    /\ UNCHANGED <<valves, user_valves>>

OperationExcept(op, exc, uv) ==
    IF op = discover_jira_tools THEN DiscoverExcept(exc) ELSE CallToolExcept(exc, uv)

\* _handshake: the initialize POST and its answer
Initialize(p, D) ==
    /\ frame[p].pc = "initialize"
    /\ \E o \in D.initialize_outcomes :
         LET f == frame[p]
             uv == f.creds[1]
             h == HandshakeInitialize(o)
             sent == Append(f.sent, InitializeRequest(uv))
         IN  frame' = [frame EXCEPT ![p] =
                 IF h.raised
                 THEN [f EXCEPT !.pc = "done", !.sent = sent, !.init_response = Some(o),
                                !.result = Some(OperationExcept(f.op, h.exc, uv))]
                 ELSE [f EXCEPT !.pc = "notify", !.sent = sent, !.init_response = Some(o),
                                !.session_id = h.session_id]]
    /\ UNCHANGED <<valves, user_valves>>

\* the notification POST sent once more when its first attempt raised
NotifyRetrying(p, D) ==
    /\ frame[p].pc = "notify"
    /\ \E o \in D.notify_outcomes :
         LET f == frame[p]
             uv == f.creds[1]
             h == HandshakeNotify(o, f.session_id)
             sent == Append(f.sent, NotifyRequest(uv, SessionOf(f, frame)))
         IN  frame' = [frame EXCEPT ![p] =
                 IF h.raised /\ Len(f.sent) < 2
                 THEN [f EXCEPT !.sent = sent, !.notify_response = Some(o)]
                 ELSE IF h.raised
                 THEN [f EXCEPT !.pc = "done", !.sent = sent, !.notify_response = Some(o),
                                !.result = Some(OperationExcept(f.op, h.exc, uv))]
                 ELSE [f EXCEPT !.pc = "call", !.sent = sent, !.notify_response = Some(o)]]
    /\ UNCHANGED <<valves, user_valves>>

\* _handshake: the notifications/initialized POST and its answer
Notify(p, D) ==
    /\ frame[p].pc = "notify"
    /\ \E o \in D.notify_outcomes :
         LET f == frame[p]
             uv == f.creds[1]
             h == HandshakeNotify(o, f.session_id)
             sent == Append(f.sent, NotifyRequest(uv, SessionOf(f, frame)))
         IN  frame' = [frame EXCEPT ![p] =
                 IF h.raised
                 THEN [f EXCEPT !.pc = "done", !.sent = sent, !.notify_response = Some(o),
                                !.result = Some(OperationExcept(f.op, h.exc, uv))]
                 ELSE [f EXCEPT !.pc = "call", !.sent = sent, !.notify_response = Some(o)]]
    /\ UNCHANGED <<valves, user_valves>>

ValueErrorExc == Exc("ValueError", <<"Attempted to set connect timeout to a value <= 0">>)

\* _call_tool: the tools/call POST and its answer.  requests refuses a
\* timeout that is not positive before it sends anything.
CallTool(p, D) ==
    /\ frame[p].pc = "call"
    /\ frame[p].op # discover_jira_tools
    /\ \E o \in D.call_outcomes :
         LET f == frame[p]
             uv == f.creds[1]
         IN  frame' = [frame EXCEPT ![p] =
                 IF uv.REQUEST_TIMEOUT <= 0
                 THEN [f EXCEPT !.pc = "done",
                                !.result = Some(CallToolExcept(ValueErrorExc, uv))]
                 ELSE [f EXCEPT !.pc = "done",
                                !.sent = Append(f.sent,
                                    CallRequest(uv, SessionOf(f, frame), f.tool_name, f.arguments)),
                                !.response = Some(o),
                                !.result = Some(CallToolResponse(o, uv))]]
    /\ UNCHANGED <<valves, user_valves>>

\* discover_jira_tools: the tools/list POST and its answer
ListTools(p, D) ==
    /\ frame[p].pc = "call"
    /\ frame[p].op = discover_jira_tools
    /\ \E o \in D.list_outcomes :
         LET f == frame[p]
             uv == f.creds[1]
         IN  frame' = [frame EXCEPT ![p] =
                 [f EXCEPT !.pc = "done",
                           !.sent = Append(f.sent, ListRequest(uv, SessionOf(f, frame))),
                           !.response = Some(o),
                           !.result = Some(DiscoverResponse(o, valves))]]
    /\ UNCHANGED <<valves, user_valves>>

\* The host has the result; nothing of the operation is kept.
Return(p) ==
    /\ frame[p].pc = "done"
    /\ frame' = [frame EXCEPT ![p] = IdleFrame]
    /\ UNCHANGED <<valves, user_valves>>

\* ------------------------------------------------------------ inputs
SeqUpTo(S, n) == UNION {[1 .. k -> S] : k \in 0 .. n}

Context(shape) == [shape |-> shape, valves |-> DefaultUserValves]
Typed(key, pat, timeout) ==
    [shape |-> "typed",
     valves |-> [LITELLM_API_KEY |-> key, JIRA_PAT |-> pat, REQUEST_TIMEOUT |-> timeout]]
Dict(key, pat, timeout, bad) ==
    [shape |-> "dict",
     valves |-> [LITELLM_API_KEY |-> key, JIRA_PAT |-> pat,
                 REQUEST_TIMEOUT |-> timeout, bad_type |-> bad]]

Users ==
    {Context("absent"), Context("empty"), Context("no_valves"),
     Context("other_valves"), Context("not_mapping"),
     Typed(<< >>, << >>, 120), Typed(<<"key">>, <<"pat">>, 120),
     Typed(<< >>, <<"pat">>, 400), Typed(<<"key">>, << >>, 20),
     Dict(None, None, None, FALSE), Dict(None, Some(<<"pat">>), None, FALSE),
     Dict(Some(<<"key">>), Some(<< >>), Some(60), FALSE),
     Dict(None, Some(<<"pat">>), None, TRUE),
     Dict(None, Some(<<"pat">>), Null, FALSE)}

Keys == {<<"PROJ-1">>, <<"PROJ-2">>}

ToolNames ==
    write_tools
    \cup {J("search"), J("batch_get_changelogs"), <<"confluence_", "search">>, << >>}

Arguments ==
    {[is_str |-> TRUE, text |-> <<"{", "}">>], [is_str |-> TRUE, text |-> <<"{">>],
     [is_str |-> TRUE, text |-> << >>], [is_str |-> TRUE, text |-> <<"null">>],
     [is_str |-> FALSE, text |-> <<"{", "}">>]}

\* JSON bodies: {"error": ..., "result": ...}, each member there or not
Body(error, result) == [error |-> error, result |-> result]

Errors ==
    {ErrorString(<<"boom">>),
     ErrorObject(Some(<<"Method not found">>), <<"{'code': -32601, 'message': 'Method not found'}">>),
     ErrorObject(None, <<"{'code': -32000}">>),
     ErrorObject(Null, <<"{'code': 1, 'message': None}">>)}

TextItem(text) == [type |-> "text", text |-> text, resource |-> None]
ResourceItem(resource) == [type |-> "resource", text |-> None, resource |-> resource]
OtherItem(type) == [type |-> type, text |-> None, resource |-> None]

Sessions == {None, Some(<< >>), Some(<<"sid-1">>), Some(<<"sid-2">>)}

InitializeOutcomes ==
    {TimedOut, ConnectionFailed,
     Response(500, None, <<"Internal Server Error">>, None),
     Response(200, Some(<<"sid-1">>), <<"<html>">>, None),
     Response(200, Some(<<"sid-1">>), <<"null">>, Null),
     Response(200, Some(<<"sid-1">>), <<"{error}">>, Some(Body(Null, None))),
     Response(200, Some(<<"sid-1">>), <<"{error}">>, Some(Body(Some(ErrorString(<<"boom">>)), None)))}
    \cup {Response(200, sid, <<"{result}">>, Some(Body(None, Some([content |-> None])))) :
             sid \in Sessions}

NotifyOutcomes ==
    {TimedOut, ConnectionFailed,
     Response(202, None, << >>, None),
     Response(500, None, <<"Internal Server Error">>, None)}

Contents ==
    {<< >>, <<TextItem(Some(<<"A">>))>>,
     <<TextItem(Some(<<"A">>)), TextItem(Some(<<"B">>))>>,
     <<ResourceItem(Some([uri |-> Some(<<"x://y">>)]))>>,
     <<OtherItem("image")>>,
     <<TextItem(Some(<< >>))>>,
     <<TextItem(Some(<<"A">>)), TextItem(Null)>>,
     <<ResourceItem(Some([uri |-> Null]))>>,
     <<ResourceItem(Null)>>}

CallOutcomes ==
    {TimedOut, ConnectionFailed,
     Response(500, None, <<"Internal Server Error">>, None),
     Response(404, None, << >>, Some(Body(None, Some([content |-> None])))),
     Response(200, None, <<"<html>">>, None),
     Response(200, None, <<"{}">>, Some(Body(None, None))),
     Response(200, None, <<"null">>, Null),
     Response(200, None, <<"{error}">>, Some(Body(Null, None))),
     Response(200, None, <<"{result}">>, Some(Body(None, Null))),
     Response(200, None, <<"{result}">>, Some(Body(None, Some([content |-> Null])))),
     Response(200, None, <<"{result}">>, Some(Body(None, Some([content |-> None]))))}
    \cup {Response(200, None, <<"{error}">>, Some(Body(Some(e), r))) :
             e \in Errors, r \in {None, Some([content |-> Some(<<TextItem(Some(<<"A">>))>>)])}}
    \cup {Response(200, None, <<"{result}">>, Some(Body(None, Some([content |-> Some(c)])))) :
             c \in Contents}

Tool(name) ==
    [name |-> Some(name), description |-> Some(<<"description">>), inputSchema |-> None]

ListOutcomes ==
    {TimedOut, ConnectionFailed,
     Response(500, None, <<"Internal Server Error">>, None),
     Response(200, None, <<"<html>">>, None),
     Response(200, None, <<"{error}">>, Some(Body(Some(ErrorString(<<"boom">>)), None))),
     Response(200, None, <<"{}">>, Some(Body(None, None))),
     Response(200, None, <<"null">>, Null),
     Response(200, None, <<"{error}">>, Some(Body(Null, None))),
     Response(200, None, <<"{result}">>, Some(Body(None, Null))),
     Response(200, None, <<"{result}">>, Some(Body(None, Some([tools |-> Null])))),
     Response(200, None, <<"{result}">>,
              Some(Body(None, Some([tools |-> Some(<<Tool(J("search")),
                                                     [name |-> Null, description |-> None,
                                                      inputSchema |-> None]>>)])))),
     Response(200, None, <<"{result}">>,
              Some(Body(None, Some([tools |-> Some(<<Tool(J("search")), Tool(J("delete_issue")),
                                                     Tool(<<"confluence_", "search">>)>>)]))))}

\* ------------------------------------------------------------ Spec
\* One operation at a time, over the whole public surface.
Domain ==
    [ops |-> PublicOps, users |-> Users, keys |-> Keys, tool_names |-> ToolNames,
     arguments |-> Arguments, initialize_outcomes |-> InitializeOutcomes,
     notify_outcomes |-> NotifyOutcomes, call_outcomes |-> CallOutcomes,
     list_outcomes |-> ListOutcomes]

ValvesSet ==
    {[ENABLED_TOOLS |-> e, READ_ONLY_MODE |-> r] :
        e \in {<< >>, <<"jira_", "search">>}, r \in BOOLEAN}

Init ==
    /\ valves \in ValvesSet
    /\ user_valves = DefaultUserValves
    /\ frame = [p \in Procs |-> IdleFrame]

Next ==
    \/ Invoke(1, Domain)
    \/ Initialize(1, Domain)
    \/ Notify(1, Domain)
    \/ CallTool(1, Domain)
    \/ ListTools(1, Domain)
    \/ Return(1)

Spec == Init /\ [][Next]_vars

\* ------------------------------------------------------------ properties
\* s occurs in text
Mentions(text, s) ==
    \E i \in 1 .. (Len(text) - Len(s) + 1) : SubSeq(text, i, i + Len(s) - 1) = s

Same(r, expected) == r.kind = expected.kind /\ r.value = expected.value

Returned(f, expected) == IsSome(f.result) /\ Same(f.result[1], expected)

IsReadOnlyMessage(r) ==
    /\ r.kind = "text"
    /\ Len(r.value) >= 3
    /\ r.value[1] = "Read-Only Mode Active: I cannot "
    /\ r.value[Len(r.value)] = " because the Jira integration is currently in read-only mode"

IsArgumentError(r) ==
    /\ r.kind = "json_error"
    /\ r.value.message = None
    /\ Len(r.value.error) >= 2
    /\ r.value.error[1] = "Invalid JSON arguments: "

\* what the credential resolver gives for the caller context of f
ResolvedOf(f) == _get_user_valves(user_valves, f.input.user)

TokenAbsent(f) == ~ResolvedOf(f).raised /\ ~Truthy(ResolvedOf(f).value.JIRA_PAT)

\* f is an invocation of a write-classified tool, by its own operation or
\* by the pass-through
InvokesWriteTool(f) ==
    \/ f.op \in WriteOps /\ f.op \in write_tools
    \/ f.op = call_mcp_tool /\ f.input.tool_name \in write_tools

InvalidJsonPassThrough(f) ==
    /\ f.op = call_mcp_tool
    /\ f.input.arguments.is_str
    /\ ~IsJsonValue(f.input.arguments.text)

\* C1: under READ_ONLY_MODE an invocation of a write-classified tool, by its
\* dedicated operation or by call_mcp_tool, has ended without any request
\* sent, with the read-only message that names the attempted action (the
\* tool name for the pass-through, the issue keys for a dedicated operation).
C1_ReadOnlyDeniedLocally ==
    \A p \in Procs :
        LET f == frame[p]
        IN  (f.pc # "idle" /\ valves.READ_ONLY_MODE /\ InvokesWriteTool(f))
            => /\ f.pc = "done"
               /\ f.sent = << >>
               /\ IsSome(f.result)
               /\ IsReadOnlyMessage(f.result[1])
               /\ f.op = call_mcp_tool
                    => Mentions(f.result[1].value,
                                <<"execute '">> \o f.input.tool_name \o <<"'">>)
               /\ f.op # call_mcp_tool
                    => (Mentions(f.result[1].value, f.input.params.key)
                        /\ Mentions(f.result[1].value, f.input.params.key2))

C1_Witness ==
    /\ valves.READ_ONLY_MODE
    /\ frame[1].pc = "done"
    /\ frame[1].op = call_mcp_tool
    /\ frame[1].input.tool_name = J("create_sprint")
    /\ frame[1].input.user = Typed(<<"key">>, <<"pat">>, 120)
    /\ frame[1].input.arguments = [is_str |-> TRUE, text |-> <<"{", "}">>]
    /\ frame[1].sent = << >>
    /\ IsReadOnlyMessage(frame[1].result[1])

\* C2 as stated: whenever the resolved JIRA_PAT is empty, every public
\* operation ends without a request and returns the "Jira PAT not
\* configured" payload.
C2_TokenAbsentConfigurationError ==
    \A p \in Procs :
        LET f == frame[p]
        IN  (f.pc # "idle" /\ TokenAbsent(f))
            => /\ f.pc = "done"
               /\ f.sent = << >>
               /\ Returned(f, NotConfigured)

\* C2 amended: whenever the resolved JIRA_PAT is empty, every public
\* operation ends without a request; it returns the "Jira PAT not configured"
\* payload, except that a write-classified invocation under READ_ONLY_MODE
\* returns the read-only message and a pass-through whose arguments string is
\* not valid JSON returns the "Invalid JSON arguments" payload.
C2_TokenAbsentNoRequest ==
    \A p \in Procs :
        LET f == frame[p]
        IN  (f.pc # "idle" /\ TokenAbsent(f))
            => /\ f.pc = "done"
               /\ f.sent = << >>
               /\ IsSome(f.result)
               /\ IF valves.READ_ONLY_MODE /\ InvokesWriteTool(f)
                  THEN IsReadOnlyMessage(f.result[1])
                  ELSE IF InvalidJsonPassThrough(f)
                  THEN IsArgumentError(f.result[1])
                  ELSE Same(f.result[1], NotConfigured)

C2_Witness ==
    /\ frame[1].pc = "done"
    /\ frame[1].op = J("search")
    /\ frame[1].input.user = Typed(<<"key">>, << >>, 20)
    /\ frame[1].sent = << >>
    /\ Returned(frame[1], NotConfigured)

\* C3: no public operation ends by raising an exception to the host.
C3_NeverRaises ==
    \A p \in Procs :
        IsSome(frame[p].result) => frame[p].result[1].kind # "raise"

\* ------------------------------------------------------------ SpecPassThrough
\* call_mcp_tool for every short arguments string over the JSON tokens.
PassThroughDomain ==
    [ops |-> {call_mcp_tool},
     users |-> {Typed(<<"key">>, <<"pat">>, 120), Typed(<<"key">>, << >>, 120),
                Context("absent"), Context("not_mapping"),
                Dict(None, Some(<<"pat">>), None, TRUE)},
     keys |-> {<< >>},
     tool_names |-> {J("delete_issue"), J("search")},
     arguments |->
        {[is_str |-> FALSE, text |-> <<"{", "}">>]}
        \cup {[is_str |-> TRUE, text |-> t] : t \in SeqUpTo(JsonTokens, MaxJsonLen)},
     initialize_outcomes |->
        {TimedOut,
         Response(200, Some(<<"sid-1">>), <<"{result}">>, Some(Body(None, None)))},
     notify_outcomes |-> {Response(202, None, << >>, None)},
     call_outcomes |->
        {Response(200, None, <<"{result}">>,
                  Some(Body(None, Some([content |-> Some(<<TextItem(Some(<<"A">>))>>)]))))},
     list_outcomes |-> {}]

InitPassThrough ==
    /\ valves \in {[ENABLED_TOOLS |-> << >>, READ_ONLY_MODE |-> r] : r \in BOOLEAN}
    /\ user_valves = DefaultUserValves
    /\ frame = [p \in Procs |-> IdleFrame]

NextPassThrough ==
    \/ Invoke(1, PassThroughDomain)
    \/ Initialize(1, PassThroughDomain)
    \/ Notify(1, PassThroughDomain)
    \/ CallTool(1, PassThroughDomain)
    \/ Return(1)

SpecPassThrough == InitPassThrough /\ [][NextPassThrough]_vars

\* C4 as stated: call_mcp_tool with an arguments string that is not valid
\* JSON returns the "Invalid JSON arguments" payload and sends no request,
\* whatever the tool name and the resolved credentials.
C4_InvalidJsonArgumentError ==
    \A p \in Procs :
        LET f == frame[p]
        IN  (f.pc # "idle" /\ InvalidJsonPassThrough(f) /\ ~ResolvedOf(f).raised)
            => /\ f.pc = "done"
               /\ f.sent = << >>
               /\ IsSome(f.result)
               /\ IsArgumentError(f.result[1])

\* C4 amended: call_mcp_tool with an arguments string that is not valid JSON
\* sends no request; it returns the "Invalid JSON arguments" payload for
\* every tool name and every resolved credentials, except that under
\* READ_ONLY_MODE a write-classified tool name gets the read-only message.
C4_InvalidJsonNoRequest ==
    \A p \in Procs :
        LET f == frame[p]
        IN  (f.pc # "idle" /\ InvalidJsonPassThrough(f))
            => /\ f.pc = "done"
               /\ f.sent = << >>
               /\ IsSome(f.result)
               /\ IF valves.READ_ONLY_MODE /\ f.input.tool_name \in write_tools
                  THEN IsReadOnlyMessage(f.result[1])
                  ELSE ~ResolvedOf(f).raised => IsArgumentError(f.result[1])

C4_Witness ==
    /\ frame[1].pc = "done"
    /\ frame[1].op = call_mcp_tool
    /\ InvalidJsonPassThrough(frame[1])
    /\ frame[1].input.arguments.text = <<"[", "null", ",">>
    /\ frame[1].input.tool_name = J("delete_issue")
    /\ ~valves.READ_ONLY_MODE
    /\ Truthy(ResolvedOf(frame[1]).value.JIRA_PAT)
    /\ frame[1].sent = << >>
    /\ IsArgumentError(frame[1].result[1])

\* the answer to the tools/call POST of f, when that POST was answered
CallAnswered(f) ==
    /\ f.pc = "done"
    /\ f.op # discover_jira_tools
    /\ IsSome(f.response)
    /\ f.response[1].kind = "response"

\* C8: a tools/call answer with status 200 whose JSON body has an error
\* member gives an error payload, never a text result, also when a result
\* member is there; its text is the message of the error when the error is
\* an object with a message, else the string form of the error ("None" for
\* a null error); a message that is null gives {"error": null}.
C8_ErrorMemberGivesErrorPayload ==
    \A p \in Procs :
        LET f == frame[p]
        IN  (/\ CallAnswered(f)
             /\ f.response[1].status = 200
             /\ IsSome(f.response[1].json)
             /\ Has(f.response[1].json[1].error))
            => LET error == f.response[1].json[1].error
               IN  /\ IsSome(f.result)
                   /\ IF IsNull(error)
                      THEN Same(f.result[1], JsonError(<<"None">>, None))
                      ELSE IF error[1].is_dict /\ IsNull(error[1].message)
                      THEN f.result[1].kind = "json_error_null"
                      ELSE IF error[1].is_dict /\ IsSome(error[1].message)
                      THEN Same(f.result[1], JsonError(error[1].message[1], None))
                      ELSE Same(f.result[1], JsonError(error[1].str, None))

C8_Witness ==
    /\ CallAnswered(frame[1])
    /\ frame[1].response[1].status = 200
    /\ IsSome(frame[1].response[1].json)
    /\ IsSome(frame[1].response[1].json[1].error)
    /\ IsSome(frame[1].response[1].json[1].result)
    /\ frame[1].response[1].json[1].error[1].is_dict
    /\ frame[1].result[1].kind = "json_error"
    /\ frame[1].result[1].value.error = <<"Method not found">>

\* C9: a tools/call answer with a status other than 200 gives, without
\* raising and whatever the body holds, an error payload whose text holds
\* "HTTP <status>" and the body text.
C9_Non200GivesHttpError ==
    \A p \in Procs :
        LET f == frame[p]
        IN  (CallAnswered(f) /\ f.response[1].status # 200)
            => /\ IsSome(f.result)
               /\ f.result[1].kind = "json_error"
               /\ Len(f.result[1].value.error) >= 1
               /\ f.result[1].value.error[1] = "HTTP "
               /\ f.response[1].status = 500
                    => SubSeq(f.result[1].value.error, 1, 4) = <<"HTTP ", "5", "0", "0">>
               /\ f.response[1].status = 404
                    => SubSeq(f.result[1].value.error, 1, 4) = <<"HTTP ", "4", "0", "4">>
               /\ Mentions(f.result[1].value.error, f.response[1].text)

C9_Witness ==
    /\ CallAnswered(frame[1])
    /\ frame[1].response[1].status = 500
    /\ frame[1].response[1].text = <<"Internal Server Error">>
    /\ frame[1].result[1].kind = "json_error"
    /\ Mentions(frame[1].result[1].value.error, <<"Internal Server Error">>)

\* ------------------------------------------------------------ SpecTimeout
\* One tool invocation for every REQUEST_TIMEOUT of a range.
TimeoutDomain ==
    [ops |-> {J("get_issue")},
     users |-> {Typed(<<"key">>, <<"pat">>, t) : t \in (0 - 8) .. MaxTimeout},
     keys |-> {<<"PROJ-1">>}, tool_names |-> {<< >>}, arguments |-> {NoArguments},
     initialize_outcomes |->
        {TimedOut,
         Response(200, Some(<<"sid-1">>), <<"{result}">>, Some(Body(None, None)))},
     notify_outcomes |-> {Response(202, None, << >>, None)},
     call_outcomes |->
        {TimedOut,
         Response(200, None, <<"{result}">>,
                  Some(Body(None, Some([content |-> Some(<<TextItem(Some(<<"A">>))>>)]))))},
     list_outcomes |-> {}]

InitTimeout ==
    /\ valves = DefaultValves
    /\ user_valves = DefaultUserValves
    /\ frame = [p \in Procs |-> IdleFrame]

NextTimeout ==
    \/ Invoke(1, TimeoutDomain)
    \/ Initialize(1, TimeoutDomain)
    \/ Notify(1, TimeoutDomain)
    \/ CallTool(1, TimeoutDomain)
    \/ Return(1)

SpecTimeout == InitTimeout /\ [][NextTimeout]_vars

\* C6: the timeout of every initialize POST is max(30, REQUEST_TIMEOUT / 4),
\* the quotient taken in whole seconds: it is 30 up to a configured 120 and
\* the whole part of a quarter of the configured value above; never under 30.
C6_HandshakeTimeout ==
    \A p \in Procs :
        \A i \in 1 .. Len(frame[p].sent) :
            frame[p].sent[i].method = "initialize"
            => LET t == frame[p].sent[i].timeout
                   rt == frame[p].creds[1].REQUEST_TIMEOUT
               IN  /\ t >= 30
                   /\ rt < 120 => t = 30
                   /\ rt >= 120 => (4 * t <= rt /\ rt < 4 * t + 4)
                   /\ rt = 120 => t = 30
                   /\ rt = 20 => t = 30
                   /\ rt = 400 => t = 100

C6_Witness ==
    /\ frame[1].pc = "notify"
    /\ frame[1].creds[1].REQUEST_TIMEOUT = 400
    /\ Len(frame[1].sent) = 1
    /\ frame[1].sent[1].method = "initialize"
    /\ frame[1].sent[1].timeout = 100

\* ------------------------------------------------------------ SpecDiscovery
\* Discovery for every ENABLED_TOOLS setting made of a few entries and every
\* short list of tools of the server.
EnabledEntries ==
    {<< >>, <<" ">>, J("search"), <<" ">> \o J("search") \o <<" ">>, J("delete_issue")}

RECURSIVE JoinComma(_)
JoinComma(parts) ==
    IF Len(parts) = 1 THEN parts[1]
    ELSE parts[1] \o <<",">> \o JoinComma(Tail(parts))

EnabledSettings ==
    {JoinComma(es) : es \in UNION {[1 .. k -> EnabledEntries] : k \in 1 .. MaxEnabled}}

ServerTools ==
    {Tool(J("search")), Tool(J("delete_issue")), Tool(<<"confluence_", "search">>),
     [name |-> None, description |-> None, inputSchema |-> None],
     [name |-> Null, description |-> Null, inputSchema |-> Null],
     [name |-> Some(J("search")), description |-> Null, inputSchema |-> Null]}

DiscoveryDomain ==
    [ops |-> {discover_jira_tools},
     users |-> {Typed(<<"key">>, <<"pat">>, 120)},
     keys |-> {<< >>}, tool_names |-> {<< >>}, arguments |-> {NoArguments},
     initialize_outcomes |->
        {Response(200, Some(<<"sid-1">>), <<"{result}">>, Some(Body(None, None)))},
     notify_outcomes |-> {Response(202, None, << >>, None)},
     call_outcomes |-> {},
     list_outcomes |->
        {Response(500, None, <<"Internal Server Error">>, None),
         Response(200, None, <<"{}">>, Some(Body(None, None)))}
        \cup {Response(200, None, <<"{result}">>, Some(Body(None, Some([tools |-> Some(ts)])))) :
                 ts \in SeqUpTo(ServerTools, MaxTools)}]

InitDiscovery ==
    /\ valves \in {[ENABLED_TOOLS |-> e, READ_ONLY_MODE |-> r] :
                      e \in EnabledSettings, r \in BOOLEAN}
    /\ user_valves = DefaultUserValves
    /\ frame = [p \in Procs |-> IdleFrame]

NextDiscovery ==
    \/ Invoke(1, DiscoveryDomain)
    \/ Initialize(1, DiscoveryDomain)
    \/ Notify(1, DiscoveryDomain)
    \/ ListTools(1, DiscoveryDomain)
    \/ Return(1)

SpecDiscovery == InitDiscovery /\ [][NextDiscovery]_vars

\* the comma-separated entries of a setting, each trimmed of its blanks,
\* written from the positions of the commas
CommaAt(s) == {i \in 1 .. Len(s) : s[i] = ","}
Bounds(s) == {0, Len(s) + 1} \cup CommaAt(s)
Pieces(s) ==
    {SubSeq(s, a + 1, b - 1) :
        <<a, b>> \in {ab \in Bounds(s) \X Bounds(s) :
                         ab[1] < ab[2] /\ \A c \in CommaAt(s) : ~(ab[1] < c /\ c < ab[2])}}
NonBlankAt(t) == {i \in 1 .. Len(t) : t[i] # " "}
Trimmed(t) ==
    IF NonBlankAt(t) = {} THEN << >>
    ELSE SubSeq(t, CHOOSE i \in NonBlankAt(t) : \A j \in NonBlankAt(t) : i <= j,
                   CHOOSE i \in NonBlankAt(t) : \A j \in NonBlankAt(t) : i >= j)
TrimmedEntries(s) == {Trimmed(t) : t \in Pieces(s)}

HasJiraPrefix(name) == name # << >> /\ Head(name) = "jira_"

\* the three conditions of C5 as stated
PassesStated(name) ==
    /\ HasJiraPrefix(name)
    /\ (valves.ENABLED_TOOLS = << >> \/ name \in TrimmedEntries(valves.ENABLED_TOOLS))
    /\ (~valves.READ_ONLY_MODE \/ name \notin write_tools)

\* the three conditions of C5 as amended
PassesAmended(name) ==
    /\ HasJiraPrefix(name)
    /\ (TrimmedEntries(valves.ENABLED_TOOLS) \subseteq {<< >>}
        \/ name \in TrimmedEntries(valves.ENABLED_TOOLS))
    /\ (~valves.READ_ONLY_MODE \/ name \notin write_tools)

NameOf(tool) == IF IsSome(tool.name) THEN tool.name[1] ELSE << >>
PassesStatedTool(tool) == PassesStated(NameOf(tool))
PassesAmendedTool(tool) == PassesAmended(NameOf(tool))

\* the tools/list POST of f was answered with status 200 and a tool list
ListAnswered(f) ==
    /\ f.pc = "done"
    /\ f.op = discover_jira_tools
    /\ IsSome(f.response)
    /\ f.response[1].kind = "response"
    /\ f.response[1].status = 200
    /\ IsSome(f.response[1].json)
    /\ f.response[1].json[1].error = None
    /\ IsSome(f.response[1].json[1].result)
    /\ IsSome(f.response[1].json[1].result[1].tools)

ServerList(f) == f.response[1].json[1].result[1].tools[1]

\* no tool of the list has a name that is null
NamesAreStr(tools) == \A i \in 1 .. Len(tools) : ~IsNull(tools[i].name)

\* the names of the returned tools are the names of the sub-list kept
NamesAre(returned, kept) ==
    /\ Len(returned) = Len(kept)
    /\ \A i \in 1 .. Len(kept) : returned[i].name = NameOf(kept[i])

\* C5 as stated: discovery returns, in the server's order, exactly the tools
\* whose name starts with "jira_", that ENABLED_TOOLS lists when it is not
\* empty, and that are not write-classified under READ_ONLY_MODE.
C5_DiscoveryFilterStated ==
    \A p \in Procs :
        ListAnswered(frame[p])
        => /\ frame[p].result[1].kind = "json_tools"
           /\ NamesAre(frame[p].result[1].value,
                       SelectSeq(ServerList(frame[p]), PassesStatedTool))

\* C5 amended: the same, with the allow-list condition "ENABLED_TOOLS has no
\* non-blank entry (it is empty, or only commas and blanks) or the name is
\* one of its trimmed entries", for a list in which no tool has a null name;
\* a list with a null name gives the "Discovery failed: " error payload and
\* no tool.
C5_DiscoveryFilter ==
    \A p \in Procs :
        ListAnswered(frame[p])
        => IF NamesAreStr(ServerList(frame[p]))
           THEN /\ frame[p].result[1].kind = "json_tools"
                /\ NamesAre(frame[p].result[1].value,
                            SelectSeq(ServerList(frame[p]), PassesAmendedTool))
           ELSE /\ frame[p].result[1].kind = "json_error"
                /\ frame[p].result[1].value.error[1] = "Discovery failed: "

C5_Witness ==
    /\ ListAnswered(frame[1])
    /\ valves.READ_ONLY_MODE
    /\ valves.ENABLED_TOOLS = <<" ", "jira_", "search", " ", ",", "jira_", "delete_issue">>
    /\ ServerList(frame[1]) = <<Tool(J("delete_issue")), Tool(J("search"))>>
    /\ Len(frame[1].result[1].value) = 1
    /\ frame[1].result[1].value[1].name = J("search")

\* ------------------------------------------------------------ SpecNormalize
\* One tool invocation for every short result.content of the server.
Items ==
    {TextItem(Some(<<"A">>)), TextItem(Some(<<"B">>)), TextItem(Some(<< >>)),
     TextItem(None), TextItem(Null),
     ResourceItem(Some([uri |-> Some(<<"x://y">>)])),
     ResourceItem(Some([uri |-> None])), ResourceItem(Some([uri |-> Null])),
     ResourceItem(None), ResourceItem(Null),
     OtherItem("image")}

NormalizeDomain ==
    [ops |-> {J("get_issue")},
     users |-> {Typed(<<"key">>, <<"pat">>, 120)},
     keys |-> {<<"PROJ-1">>}, tool_names |-> {<< >>}, arguments |-> {NoArguments},
     initialize_outcomes |->
        {Response(200, Some(<<"sid-1">>), <<"{result}">>, Some(Body(None, None)))},
     notify_outcomes |-> {Response(202, None, << >>, None)},
     call_outcomes |->
        {Response(200, None, <<"{}">>, Some(Body(None, None))),
         Response(200, None, <<"null">>, Null),
         Response(200, None, <<"{result}">>, Some(Body(None, Null))),
         Response(200, None, <<"{result}">>, Some(Body(None, Some([content |-> None])))),
         Response(200, None, <<"{result}">>, Some(Body(None, Some([content |-> Null])))),
         Response(200, None, <<"{error}">>,
                  Some(Body(Some(ErrorString(<<"boom">>)),
                            Some([content |-> Some(<<TextItem(Some(<<"A">>))>>)]))))}
        \cup {Response(200, None, <<"{result}">>, Some(Body(None, Some([content |-> Some(c)])))) :
                 c \in SeqUpTo(Items, MaxContent)},
     list_outcomes |-> {}]

NextNormalize ==
    \/ Invoke(1, NormalizeDomain)
    \/ Initialize(1, NormalizeDomain)
    \/ Notify(1, NormalizeDomain)
    \/ CallTool(1, NormalizeDomain)
    \/ Return(1)

SpecNormalize == InitTimeout /\ [][NextNormalize]_vars

\* the reference normalization of C7: null read as absent
ContentOf(data) ==
    IF ~IsSome(data.result) \/ ~IsSome(data.result[1].content)
    THEN << >> ELSE data.result[1].content[1]

Recognized(item) == item.type \in {"text", "resource"}

\* every text item carries a text and every resource item a resource uri
WellFormed(content) ==
    \A i \in 1 .. Len(content) :
        /\ content[i].type = "text" => IsSome(content[i].text)
        /\ content[i].type = "resource"
             => (IsSome(content[i].resource) /\ IsSome(content[i].resource[1].uri))

Mapped(item) ==
    IF item.type = "text" THEN item.text[1]
    ELSE <<"[Resource: ">> \o item.resource[1].uri[1] \o <<"]">>

RECURSIVE Flatten(_)
Flatten(parts) ==
    IF parts = << >> THEN << >> ELSE Head(parts) \o Flatten(Tail(parts))

NewlineJoined(items) ==
    Flatten([i \in 1 .. Len(items) |->
                IF i = 1 THEN Mapped(items[i]) ELSE <<"\n">> \o Mapped(items[i])])

\* C7 as stated: for a tools/call answer with status 200 and no error
\* member, the returned str is the newline-join, in order, of the text of
\* each text item and of "[Resource: <uri>]" for each resource item, the
\* other items skipped; with content empty or absent, or no item of these
\* two types, it is the JSON encoding of the body.
C7_NormalizationStated ==
    \A p \in Procs :
        LET f == frame[p]
        IN  (/\ CallAnswered(f)
             /\ f.response[1].status = 200
             /\ IsSome(f.response[1].json)
             /\ f.response[1].json[1].error = None
             /\ WellFormed(ContentOf(f.response[1].json[1])))
            => LET data == f.response[1].json[1]
                   kept == SelectSeq(ContentOf(data), Recognized)
               IN  /\ IsSome(f.result)
                   /\ IF kept = << >>
                      THEN Same(f.result[1], JsonBody(data))
                      ELSE Same(f.result[1], Text(NewlineJoined(kept)))

\* result or content is null, a text item has a null text, or a resource
\* item a null resource
HasNullMember(data) ==
    \/ IsNull(data.result)
    \/ IsSome(data.result) /\ IsNull(data.result[1].content)
    \/ \E i \in 1 .. Len(ContentOf(data)) :
          LET item == ContentOf(data)[i]
          IN  \/ item.type = "text" /\ IsNull(item.text)
              \/ item.type = "resource" /\ IsNull(item.resource)

\* the str of an item with the defaults of the code: "" for a missing text,
\* "unknown" for a missing resource or uri, "None" for a null uri
MappedOrDefault(item) ==
    IF item.type = "text"
    THEN (IF IsSome(item.text) THEN item.text[1] ELSE << >>)
    ELSE <<"[Resource: ">>
         \o (IF ~IsSome(item.resource) \/ item.resource[1].uri = None THEN <<"unknown">>
             ELSE IF IsNull(item.resource[1].uri) THEN <<"None">>
             ELSE item.resource[1].uri[1])
         \o <<"]">>

NewlineJoinedOrDefault(items) ==
    Flatten([i \in 1 .. Len(items) |->
                IF i = 1 THEN MappedOrDefault(items[i])
                ELSE <<"\n">> \o MappedOrDefault(items[i])])

\* C7 amended: the same for a body in which result, content, the text of a
\* text item and the resource of a resource item are not null, absent
\* meaning that the key is missing, with "" for a missing text and
\* "unknown" for a missing resource or uri; a body with one of these null
\* gives an error payload.
C7_Normalization ==
    \A p \in Procs :
        LET f == frame[p]
        IN  (/\ CallAnswered(f)
             /\ f.response[1].status = 200
             /\ IsSome(f.response[1].json)
             /\ f.response[1].json[1].error = None)
            => LET data == f.response[1].json[1]
                   kept == SelectSeq(ContentOf(data), Recognized)
               IN  /\ IsSome(f.result)
                   /\ IF HasNullMember(data)
                      THEN f.result[1].kind = "json_error"
                      ELSE IF kept = << >>
                      THEN Same(f.result[1], JsonBody(data))
                      ELSE Same(f.result[1], Text(NewlineJoinedOrDefault(kept)))

C7_Witness ==
    /\ CallAnswered(frame[1])
    /\ IsSome(frame[1].response[1].json)
    /\ frame[1].response[1].json[1].error = None
    /\ ContentOf(frame[1].response[1].json[1])
         = <<TextItem(Some(<<"A">>)), TextItem(Some(<<"B">>))>>
    /\ Same(frame[1].result[1], Text(<<"A", "\n", "B">>))

\* ------------------------------------------------------------ SpecConcurrent
\* Several operations in progress at once, each answered with a session
\* identifier of the server's choice.
ConcurrentDomain ==
    [ops |-> {J("get_issue"), discover_jira_tools},
     users |-> {Typed(<<"key">>, <<"pat">>, 120)},
     keys |-> {<<"PROJ-1">>}, tool_names |-> {<< >>}, arguments |-> {NoArguments},
     initialize_outcomes |->
        {Response(500, None, <<"Internal Server Error">>, None)}
        \cup {Response(200, sid, <<"{result}">>, Some(Body(None, None))) : sid \in Sessions},
     notify_outcomes |-> {Response(202, None, << >>, None)},
     call_outcomes |->
        {Response(200, None, <<"{result}">>,
                  Some(Body(None, Some([content |-> Some(<<TextItem(Some(<<"A">>))>>)]))))},
     list_outcomes |->
        {Response(200, None, <<"{result}">>,
                  Some(Body(None, Some([tools |-> Some(<<Tool(J("search"))>>)]))))}]

NextConcurrent ==
    \E p \in Procs :
        \/ Invoke(p, ConcurrentDomain)
        \/ Initialize(p, ConcurrentDomain)
        \/ Notify(p, ConcurrentDomain)
        \/ CallTool(p, ConcurrentDomain)
        \/ ListTools(p, ConcurrentDomain)
        \/ Return(p)

SpecConcurrent == InitTimeout /\ [][NextConcurrent]_vars

\* the session identifier the initialize answer of f gave, None when the
\* header was missing or empty
IssuedTo(f) ==
    IF f.init_response # None
       /\ f.init_response[1].kind = "response"
       /\ f.init_response[1].session # None
       /\ f.init_response[1].session[1] # << >>
    THEN f.init_response[1].session
    ELSE None

\* C10: every request an operation sends after its initialize request
\* carries as Mcp-Session-Id exactly the identifier its own initialize answer
\* gave, whatever other operations are in progress.
C10_OwnSessionEchoed ==
    \A p \in Procs :
        \A i \in 2 .. Len(frame[p].sent) :
            /\ frame[p].sent[i].method \in {"notifications/initialized", "tools/call", "tools/list"}
            /\ frame[p].sent[i].headers.Mcp_Session_Id = IssuedTo(frame[p])

C10_Witness ==
    /\ frame[1].pc = "done"
    /\ frame[2].pc = "done"
    /\ Len(frame[1].sent) = 3
    /\ Len(frame[2].sent) = 3
    /\ IssuedTo(frame[1]) = Some(<<"sid-1">>)
    /\ IssuedTo(frame[2]) = Some(<<"sid-2">>)
    /\ frame[1].sent[3].headers.Mcp_Session_Id = Some(<<"sid-1">>)
    /\ frame[2].sent[2].headers.Mcp_Session_Id = Some(<<"sid-2">>)

\* ------------------------------------------------------------ the resolver
\* the operation of f has called _get_user_valves: every operation does,
\* except a write-classified one that the read-only gate ended first
ResolverCalled(f) ==
    /\ f.pc # "idle"
    /\ ~(valves.READ_ONLY_MODE
         /\ \/ f.op \in WriteOps
            \/ f.op = call_mcp_tool /\ _is_write_tool(f.input.tool_name))

\* a caller context that is absent or malformed: no context, no
\* configuration in it, a configuration of an unexpected type, a context
\* that is no mapping, a mapping with a field of the wrong type
AbsentOrMalformed(user) ==
    \/ user.shape \in {"absent", "empty", "no_valves", "other_valves", "not_mapping"}
    \/ user.shape = "dict" /\ user.valves.bad_type

\* C11: _get_user_valves never raises: for every caller context an
\* operation has handed to it, it has returned a credentials record, and for
\* an absent or malformed context that record is the process-wide default
\* self.user_valves.
C11_ResolverNeverRaises ==
    \A p \in Procs :
        ResolverCalled(frame[p]) =>
            /\ ~ResolvedOf(frame[p]).raised
            /\ AbsentOrMalformed(frame[p].input.user) =>
                   ResolvedOf(frame[p]).value = user_valves

\* ------------------------------------------------------------ the notification
\* the initialize request of f was answered and _handshake went on
InitializeSucceeded(f) ==
    /\ IsSome(f.init_response)
    /\ ~HandshakeInitialize(f.init_response[1]).raised

\* the notification POST of f failed: non-200 status, timeout or connection
\* error
NotificationFailed(f) ==
    /\ IsSome(f.notify_response)
    /\ \/ f.notify_response[1].kind \in {"timeout", "connection_error"}
       \/ /\ f.notify_response[1].kind = "response"
          /\ f.notify_response[1].status # StatusOK

\* what the operation of f returns for the answer of its last request
OutcomeOfCall(f) ==
    IF f.op = discover_jira_tools
    THEN DiscoverResponse(f.response[1], valves)
    ELSE CallToolResponse(f.response[1], f.creds[1])

\* C12: after a successful initialize, a failed notification POST is not
\* propagated: the operation has ended only after sending its tools/call
\* (or tools/list) request on the session, and its result is the outcome of
\* that request.  (A REQUEST_TIMEOUT that requests rejects is left aside.)
C12_NotificationFailureNotPropagated ==
    \A p \in Procs :
        LET f == frame[p]
        IN  (/\ f.pc = "done"
             /\ InitializeSucceeded(f)
             /\ NotificationFailed(f)
             /\ f.creds[1].REQUEST_TIMEOUT > 0) =>
                /\ Len(f.sent) = 3
                /\ f.sent[3].method \in {"tools/call", "tools/list"}
                /\ f.sent[3].headers.Mcp_Session_Id = f.sent[2].headers.Mcp_Session_Id
                /\ IsSome(f.response)
                /\ Same(f.result[1], OutcomeOfCall(f))

\* ------------------------------------------------------------ the initialize request
\* C13: when the initialize request failed (timeout, connection error,
\* non-200 status, a body that is no JSON or that has an "error" member) the
\* operation has ended with that one request sent, neither the notification
\* nor the tools/call or tools/list request, and its result is an error
\* payload: it carries "HTTP <status>: <body>" for a non-200 status and
\* "MCP Error: <error>" for an "error" member.
C13_InitializeFailureAborts ==
    \A p \in Procs :
        LET f == frame[p]
        IN  (IsSome(f.init_response) /\ ~InitializeSucceeded(f)) =>
                LET o == f.init_response[1]
                IN  /\ f.pc = "done"
                    /\ Len(f.sent) = 1
                    /\ f.sent[1].method = "initialize"
                    /\ f.notify_response = None
                    /\ f.response = None
                    /\ IsSome(f.result)
                    /\ f.result[1].kind = "json_error"
                    /\ (o.kind = "response" /\ o.status # StatusOK) =>
                           Mentions(f.result[1].value.error,
                                    <<"HTTP ">> \o IntToStr(o.status) \o <<": ">> \o o.text)
                    /\ (/\ o.kind = "response"
                        /\ o.status = StatusOK
                        /\ IsSome(o.json)
                        /\ Has(o.json[1].error)) =>
                           Mentions(f.result[1].value.error,
                                    <<"MCP Error: ">>
                                    \o (IF IsNull(o.json[1].error) THEN <<"None">>
                                        ELSE o.json[1].error[1].str))

C13_Witness ==
    /\ frame[1].pc = "done"
    /\ IsSome(frame[1].init_response)
    /\ frame[1].init_response[1].kind = "response"
    /\ frame[1].init_response[1].status = 500
    /\ Len(frame[1].sent) = 1
    /\ Returned(frame[1], ErrorPayload(<<"HTTP ">> \o IntToStr(500) \o <<": ">>
                                       \o <<"Internal Server Error">>))

\* ------------------------------------------------------------ the order of the requests
\* the methods of the requests of an operation, in the order of the code
RequestOrder(f) ==
    <<"initialize", "notifications/initialized",
      IF f.op = discover_jira_tools THEN "tools/list" ELSE "tools/call">>

\* C14: the requests an operation has sent are the first one, two or three
\* of initialize, notifications/initialized, tools/call (tools/list for
\* discovery), each once; the notification is sent only when the initialize
\* request has been answered and the last request only when the
\* notification has been answered.
C14_AtMostThreeRequestsInOrder ==
    \A p \in Procs :
        LET f == frame[p]
        IN  /\ Len(f.sent) <= 3
            /\ \A i \in 1 .. Len(f.sent) : f.sent[i].method = RequestOrder(f)[i]
            /\ f.pc \in {"idle", "initialize"} => f.sent = << >>
            /\ f.pc = "notify" => Len(f.sent) = 1
            /\ f.pc = "call" => Len(f.sent) = 2
            /\ Len(f.sent) >= 1 <=> IsSome(f.init_response)
            /\ Len(f.sent) >= 2 <=> IsSome(f.notify_response)
            /\ Len(f.sent) >= 2 => InitializeSucceeded(f)
            /\ Len(f.sent) = 3 <=> IsSome(f.response)
            /\ Len(f.sent) = 3 => f.pc = "done"

C14_Witness ==
    /\ frame[1].pc = "done"
    /\ Len(frame[1].sent) = 3
    /\ frame[1].sent[1].method = "initialize"
    /\ frame[1].sent[2].method = "notifications/initialized"
    /\ frame[1].sent[3].method = "tools/call"
    /\ NotificationFailed(frame[1])
    /\ frame[1].response[1].kind = "timeout"

\* ------------------------------------------------------------ the timeout payload
\* the result of f is the payload that names the configured REQUEST_TIMEOUT
NamesConfiguredTimeout(f) ==
    /\ IsSome(f.creds)
    /\ IsSome(f.result)
    /\ Same(f.result[1], TimeoutPayload(f.creds[1]))

\* C15: a tool invocation has returned "Request timeout after
\* <REQUEST_TIMEOUT>s ..." exactly when its tools/call POST timed out, and
\* then that POST was sent once; a timeout of the initialize or of the
\* notification POST gives no payload that names REQUEST_TIMEOUT.
C15_TimeoutPayloadOnlyForCallTimeout ==
    \A p \in Procs :
        LET f == frame[p]
        IN  (f.pc = "done" /\ f.op # discover_jira_tools) =>
                /\ NamesConfiguredTimeout(f) <=>
                       (IsSome(f.response) /\ f.response[1].kind = "timeout")
                /\ NamesConfiguredTimeout(f) => Len(f.sent) = 3

\* ------------------------------------------------------------ SpecAllowList
\* Every operation kind under every setting of ENABLED_TOOLS, with and
\* without READ_ONLY_MODE.
AllowListDomain ==
    [ops |-> {J("get_issue"), J("search"), J("delete_issue"), call_mcp_tool,
              discover_jira_tools},
     users |-> {Typed(<<"key">>, <<"pat">>, 120)},
     keys |-> {<<"PROJ-1">>},
     tool_names |-> {J("search"), J("get_issue"), J("delete_issue")},
     arguments |-> {[is_str |-> TRUE, text |-> <<"{", "}">>],
                    [is_str |-> TRUE, text |-> <<"{">>]},
     initialize_outcomes |->
        {Response(500, None, <<"Internal Server Error">>, None),
         Response(200, Some(<<"sid-1">>), <<"{result}">>, Some(Body(None, None)))},
     notify_outcomes |-> {TimedOut, Response(202, None, << >>, None)},
     call_outcomes |->
        {TimedOut,
         Response(200, None, <<"{result}">>,
                  Some(Body(None, Some([content |-> Some(<<TextItem(Some(<<"A">>))>>)]))))},
     list_outcomes |->
        {Response(200, None, <<"{result}">>,
                  Some(Body(None, Some([tools |-> Some(<<Tool(J("search")),
                                                         Tool(J("get_issue"))>>)]))))}]

NextAllowList ==
    \/ Invoke(1, AllowListDomain)
    \/ Initialize(1, AllowListDomain)
    \/ Notify(1, AllowListDomain)
    \/ CallTool(1, AllowListDomain)
    \/ ListTools(1, AllowListDomain)
    \/ Return(1)

SpecAllowList == InitDiscovery /\ [][NextAllowList]_vars

\* ------------------------------------------------------------ ENABLED_TOOLS
\* The requests and the result the operation of f has after the answers it
\* received so far, had the process-wide configuration been v: the run of
\* the operation on the same input and the same answers.
SameRun(v, f) ==
    LET b == Begin(v, user_valves, f.op, f.input)
    IN  IF b.pc = "done" \/ f.init_response = None
        THEN [sent |-> << >>, result |-> b.result]
        ELSE LET uv == b.creds[1]
                 h == HandshakeInitialize(f.init_response[1])
                 s1 == <<InitializeRequest(uv)>>
             IN  IF h.raised
                 THEN [sent |-> s1, result |-> Some(OperationExcept(f.op, h.exc, uv))]
                 ELSE IF f.notify_response = None
                 THEN [sent |-> s1, result |-> None]
                 ELSE LET n == HandshakeNotify(f.notify_response[1], h.session_id)
                          s2 == Append(s1, NotifyRequest(uv, h.session_id))
                      IN  IF n.raised
                          THEN [sent |-> s2,
                                result |-> Some(OperationExcept(f.op, n.exc, uv))]
                          ELSE IF f.response = None
                          THEN [sent |-> s2,
                                result |-> IF f.pc = "done"
                                           THEN Some(CallToolExcept(ValueErrorExc, uv))
                                           ELSE None]
                          ELSE [sent |-> Append(s2, CallRequest(uv, h.session_id,
                                                                b.tool_name, b.arguments)),
                                result |-> Some(CallToolResponse(f.response[1], uv))]

\* C16: ENABLED_TOOLS does not restrict an invocation: for every read
\* operation, write operation and pass-through in progress or ended, the
\* requests sent and the result are those of the same run under any other
\* setting of ENABLED_TOOLS, the rest of the configuration being the same.
C16_EnabledToolsNotEnforcedOnInvocation ==
    \A p \in Procs :
        LET f == frame[p]
        IN  (f.pc # "idle" /\ f.op # discover_jira_tools) =>
                \A e \in EnabledSettings :
                    LET twin == SameRun([valves EXCEPT !.ENABLED_TOOLS = e], f)
                    IN  /\ f.sent = twin.sent
                        /\ f.result = twin.result

\* a tool that discovery leaves out under the allow-list has been called
\* by name through the pass-through
C16_Witness ==
    /\ frame[1].pc = "done"
    /\ frame[1].op = call_mcp_tool
    /\ EnabledList(valves.ENABLED_TOOLS) = <<J("search")>>
    /\ Len(frame[1].sent) = 3
    /\ frame[1].sent[3].method = "tools/call"
    /\ frame[1].sent[3].params.name = J("get_issue")
    /\ ~KeepsTool(valves, frame[1].sent[3].params.name)
    /\ frame[1].result[1].kind = "text"

====
